---------------------------- MODULE Spec2Model ----------------------------
(***************************************************************************)
(* A model of the fleequid auction scraper.                                *)
(*                                                                         *)
(*   src/get_data_agentic.py  the "agentic" script: schema loader, page    *)
(*                            renderer and section expander, LLM mapper,   *)
(*                            result merger and persister                  *)
(*   src/get-fleequid-data.py the earlier script: extract_auction_data     *)
(*                                                                         *)
(* Text is modelled character by character: a Python str is a sequence of  *)
(* one-character strings, so that str.replace, str.strip, str.find,        *)
(* str.rfind, slicing and json.loads are computed the way Python computes  *)
(* them.  Indices of find/rfind and of slices are Python's (0-based, -1    *)
(* for "not found"); indices into a TLA+ sequence are 1-based.             *)
(***************************************************************************)
EXTENDS Integers, Sequences, FiniteSets, TLC

(***************************************************************************)
(* Python str helpers                                                      *)
(***************************************************************************)

\* The characters str.strip() removes and json.loads skips between tokens.
Whitespace == {" ", "\n", "\t", "\r"}

Digits == {"0", "1", "2", "3", "4", "5", "6", "7", "8", "9"}

\* s[a:b] for 0 <= a and 0 <= b: empty when a >= b, clamped to len(s).
Slice(s, a, b) ==
    LET hi == IF b > Len(s) THEN Len(s) ELSE b
    IN  IF a >= hi THEN << >> ELSE SubSeq(s, a + 1, hi)

\* s.startswith(pat, i) with i a 0-based offset.
StartsWithAt(s, pat, i) ==
    /\ i + Len(pat) <= Len(s)
    /\ \A k \in 1..Len(pat) : s[i + k] = pat[k]

\* s.find(c): the 0-based index of the first c, or -1.
Find(s, c) ==
    IF \E k \in 1..Len(s) : s[k] = c
    THEN (CHOOSE k \in 1..Len(s) : s[k] = c /\ \A j \in 1..(k - 1) : s[j] # c) - 1
    ELSE -1

\* s.rfind(c): the 0-based index of the last c, or -1.
RFind(s, c) ==
    IF \E k \in 1..Len(s) : s[k] = c
    THEN (CHOOSE k \in 1..Len(s) : s[k] = c /\ \A j \in (k + 1)..Len(s) : s[j] # c) - 1
    ELSE -1

\* Whether pat occurs in s at or after the 0-based offset i, and where first.
OccursFrom(s, pat, i) == \E j \in i..Len(s) : StartsWithAt(s, pat, j)
FirstFrom(s, pat, i) ==
    CHOOSE j \in i..Len(s) :
        StartsWithAt(s, pat, j) /\ \A k \in i..(j - 1) : ~StartsWithAt(s, pat, k)

RECURSIVE ReplaceFrom(_, _, _)
\* The tail s[i:] with every occurrence of pat removed, scanning left to right
\* and resuming after each removed occurrence (occurrences do not overlap).
ReplaceFrom(s, pat, i) ==
    IF ~OccursFrom(s, pat, i) THEN Slice(s, i, Len(s))
    ELSE LET j == FirstFrom(s, pat, i)
         IN  Slice(s, i, j) \o ReplaceFrom(s, pat, j + Len(pat))

\* The same scan that removes only the first occurrence: s.replace(pat, "", 1).
ReplaceFirst(s, pat) ==
    IF OccursFrom(s, pat, 0)
    THEN LET j == FirstFrom(s, pat, 0)
         IN  Slice(s, 0, j) \o Slice(s, j + Len(pat), Len(s))
    ELSE s

\* s.replace(pat, "") for a non-empty pat.
Replace(s, pat) == ReplaceFrom(s, pat, 0)

\* s.strip()
Strip(s) ==
    IF \A k \in 1..Len(s) : s[k] \in Whitespace THEN << >>
    ELSE LET lo == CHOOSE k \in 1..Len(s) :
                       s[k] \notin Whitespace /\ \A j \in 1..(k - 1) : s[j] \in Whitespace
             hi == CHOOSE k \in 1..Len(s) :
                       s[k] \notin Whitespace /\ \A j \in (k + 1)..Len(s) : s[j] \in Whitespace
         IN  SubSeq(s, lo, hi)

\* The backtick character (U+0060), which a TLA+ string literal cannot hold.
Backtick == "BACKTICK"

\* The Markdown fence markers: three backticks followed by json, and three backticks.
FenceJson == << Backtick, Backtick, Backtick, "j", "s", "o", "n" >>
Fence == << Backtick, Backtick, Backtick >>

\* Only the first fence of each kind is removed.
StripFencesOnce(s) == Strip(ReplaceFirst(ReplaceFirst(s, FenceJson), Fence))

\* save_result, line 182: both fence markers removed everywhere, then strip().
StripFences(s) == Strip(Replace(Replace(s, FenceJson), Fence))

(***************************************************************************)
(* json.loads, on the part of JSON the model's texts use: objects, arrays, *)
(* strings without escapes, integers and null.  A value is a record        *)
(* [t, v]: t is its kind, v its content.  An object's content is a         *)
(* function from its keys to their values (a Python dict); a repeated key  *)
(* keeps its last value.                                                   *)
(***************************************************************************)
JStr(s) == [t |-> "str", v |-> s]
JNum(s) == [t |-> "num", v |-> s]
JArr(s) == [t |-> "arr", v |-> s]
JObj(f) == [t |-> "obj", v |-> f]
JNull == [t |-> "null", v |-> << >>]

ParseFail == [ok |-> FALSE, val |-> JNull, next |-> 0]
ParseOk(val, next) == [ok |-> TRUE, val |-> val, next |-> next]

RECURSIVE SkipWs(_, _)
\* The first 1-based position at or after i that holds no whitespace.
SkipWs(s, i) ==
    IF i <= Len(s) /\ s[i] \in Whitespace THEN SkipWs(s, i + 1) ELSE i

RECURSIVE DigitsEnd(_, _)
\* The first position at or after i that holds no digit.
DigitsEnd(s, i) ==
    IF i <= Len(s) /\ s[i] \in Digits THEN DigitsEnd(s, i + 1) ELSE i

\* A string starts at the quote at i: it runs to the next quote, and holds no
\* control character (json.loads is strict).
ParseString(s, i) ==
    IF \E k \in (i + 1)..Len(s) : s[k] = "\""
    THEN LET k == CHOOSE k \in (i + 1)..Len(s) :
                      s[k] = "\"" /\ \A j \in (i + 1)..(k - 1) : s[j] # "\""
             body == SubSeq(s, i + 1, k - 1)
         IN  IF \E j \in 1..Len(body) : body[j] \in {"\n", "\t", "\r"}
             THEN ParseFail
             ELSE ParseOk(JStr(body), k + 1)
    ELSE ParseFail

\* An integer: 0, or a non-zero digit followed by digits.
ParseNumber(s, i) ==
    IF s[i] = "0" THEN ParseOk(JNum(<< "0" >>), i + 1)
    ELSE LET e == DigitsEnd(s, i) IN ParseOk(JNum(SubSeq(s, i, e - 1)), e)

RECURSIVE ParseValue(_, _)
RECURSIVE ParseMembers(_, _, _)
RECURSIVE ParseElements(_, _, _)

\* The members of an object from the key expected at i; acc is the dict so far.
ParseMembers(s, i, acc) ==
    IF i > Len(s) \/ s[i] # "\"" THEN ParseFail
    ELSE LET key == ParseString(s, i) IN
         IF ~key.ok THEN ParseFail
         ELSE LET c == SkipWs(s, key.next) IN
              IF c > Len(s) \/ s[c] # ":" THEN ParseFail
              ELSE LET val == ParseValue(s, SkipWs(s, c + 1)) IN
                   IF ~val.ok THEN ParseFail
                   ELSE LET acc2 == (key.val.v :> val.val) @@ acc
                            d == SkipWs(s, val.next)
                        IN  IF d > Len(s) THEN ParseFail
                            ELSE IF s[d] = "}" THEN ParseOk(JObj(acc2), d + 1)
                            ELSE IF s[d] = "," THEN ParseMembers(s, SkipWs(s, d + 1), acc2)
                            ELSE ParseFail

\* The elements of an array from the value expected at i; acc is the list so far.
ParseElements(s, i, acc) ==
    LET val == ParseValue(s, i) IN
    IF ~val.ok THEN ParseFail
    ELSE LET acc2 == Append(acc, val.val)
             d == SkipWs(s, val.next)
         IN  IF d > Len(s) THEN ParseFail
             ELSE IF s[d] = "]" THEN ParseOk(JArr(acc2), d + 1)
             ELSE IF s[d] = "," THEN ParseElements(s, SkipWs(s, d + 1), acc2)
             ELSE ParseFail

\* The value that starts at i (whitespace already skipped).
ParseValue(s, i) ==
    IF i > Len(s) THEN ParseFail
    ELSE IF s[i] = "\"" THEN ParseString(s, i)
    ELSE IF s[i] = "{" THEN
        LET j == SkipWs(s, i + 1) IN
        IF j <= Len(s) /\ s[j] = "}" THEN ParseOk(JObj(<< >>), j + 1)
        ELSE ParseMembers(s, j, << >>)
    ELSE IF s[i] = "[" THEN
        LET j == SkipWs(s, i + 1) IN
        IF j <= Len(s) /\ s[j] = "]" THEN ParseOk(JArr(<< >>), j + 1)
        ELSE ParseElements(s, j, << >>)
    ELSE IF StartsWithAt(s, << "n", "u", "l", "l" >>, i - 1) THEN ParseOk(JNull, i + 4)
    ELSE IF s[i] \in Digits THEN ParseNumber(s, i)
    ELSE ParseFail

\* json.loads(s): a value, surrounded by whitespace only; anything else raises
\* JSONDecodeError (ok = FALSE).
JsonLoads(s) ==
    LET r == ParseValue(s, SkipWs(s, 1)) IN
    IF r.ok /\ SkipWs(s, r.next) = Len(s) + 1
    THEN [ok |-> TRUE, val |-> r.val]
    ELSE [ok |-> FALSE, val |-> JNull]

(***************************************************************************)
(* Texts of the model                                                      *)
(***************************************************************************)
Reference == << "R", "e", "f", "e", "r", "e", "n", "c", "e" >>
Name == << "N", "a", "m", "e" >>
Mileage == << "M", "i", "l", "e", "a", "g", "e" >>
Doors == << "D", "o", "o", "r", "s" >>

\* A JSON string literal, and the text of an object with the given
\* << key, value text >> members.
Quoted(s) == << "\"" >> \o s \o << "\"" >>
RECURSIVE MembersText(_)
MembersText(ms) ==
    IF ms = << >> THEN << >>
    ELSE Quoted(ms[1][1]) \o << ":" >> \o ms[1][2]
         \o (IF Len(ms) > 1 THEN << "," >> ELSE << >>) \o MembersText(Tail(ms))
ObjectText(ms) == << "{" >> \o MembersText(ms) \o << "}" >>

\* Concatenation of a sequence of texts.
RECURSIVE Concat(_)
Concat(ts) == IF ts = << >> THEN << >> ELSE ts[1] \o Concat(Tail(ts))

(***************************************************************************)
(* The persisted storage: output/auction_data.csv as pandas reads and      *)
(* writes it.  A file is [exists, readable, writable, header, rows]:       *)
(* header is the first record (the column names), rows the data records,   *)
(* each a sequence of cells.  readable is false for a file pandas cannot   *)
(* read as a table (read_csv raises); writable is false for a file that    *)
(* cannot be opened for appending (to_csv raises before writing).          *)
(***************************************************************************)
NoFile == [exists |-> FALSE, readable |-> TRUE, writable |-> TRUE,
           header |-> << >>, rows |-> << >>]

\* A header in the wrong order, for a loader that does not keep the file's order.
SwappedSchema == << Name, Reference >>

\* get_target_schema, line 33: the columns of the file it creates.
DefaultSchema == << Reference, Name >>

\* pd.DataFrame(columns=[...]).to_csv(CSV_FILE, index=False): a header, no rows.
NewCsv(cols) == [exists |-> TRUE, readable |-> TRUE, writable |-> TRUE,
                 header |-> cols, rows |-> << >>]

\* pd.read_csv(CSV_FILE).columns.tolist(): the header in file order, or an error.
ReadCsv(file) == [ok |-> file.exists /\ file.readable, columns |-> file.header]

\* The blank a missing value is written as.
Blank == [t |-> "blank", v |-> << >>]

\* DataFrame.to_csv: a missing value (None, NaN) is written as an empty field.
Render(cell) == IF cell.t \in {"null", "blank"} THEN Blank ELSE cell

\* An append that also writes the header record.
AppendCsvWithHeader(file, values) ==
    [file EXCEPT !.rows = file.rows \o << file.header, values >>]

\* df_final.to_csv(CSV_FILE, mode='a', header=False, index=False): one record
\* after the file's last.
AppendCsv(file, values) == [file EXCEPT !.rows = Append(file.rows, values)]

(***************************************************************************)
(* save_result                                                             *)
(***************************************************************************)

\* Lines 184-193: json.loads, and on JSONDecodeError the text from the first
\* "{" to the last "}".  end is rfind + 1, so it is 0, never -1, when there is
\* no "}": the slice is then empty and json.loads raises on it.
ParseModelOutput(json_str) ==
    LET direct == JsonLoads(json_str) IN
    IF direct.ok THEN direct
    ELSE LET start == Find(json_str, "{")
             end == RFind(json_str, "}") + 1
         IN  IF start # -1 /\ end # -1
             THEN JsonLoads(Slice(json_str, start, end))
             ELSE [ok |-> FALSE, val |-> JNull]

\* A merge in which the model's value wins on a key both have.
DictUpdateKeep(data, static_data) == data @@ static_data

\* Line 195, data.update(static_data): static_data wins on a key both have.
DictUpdate(data, static_data) == static_data @@ data

\* Lines 198-201: the one-row frame of data, reindexed to the schema's columns:
\* a column data lacks is missing (NaN), a key the schema lacks is dropped.
BuildRow(data, schema_cols) ==
    [columns |-> schema_cols,
     values |-> [k \in 1..Len(schema_cols) |->
                    IF schema_cols[k] \in DOMAIN data THEN data[schema_cols[k]] ELSE Blank]]

\* A log line without a text attached.
Log(level, msg) == [level |-> level, msg |-> msg, text |-> << >>]

\* Line 207: the text the except clause logs is json_str, which line 182 has
\* rebound to the fence-stripped text.
SaveErrorLog(json_str) ==
    [level |-> "ERROR", msg |-> "Error saving result", text |-> StripFences(json_str)]

\* Lines 180-207, the whole handler: what it leaves in the file, what it logs,
\* and whether an exception leaves it.
SaveResultOutcome(json_str, static_data, file) ==
    LET stripped == StripFences(json_str)
        parsed == ParseModelOutput(stripped)
        schema == ReadCsv(file)
        failed == [ok |-> FALSE, raised |-> FALSE, file |-> file,
                   entry |-> SaveErrorLog(json_str)]
    IN  IF ~parsed.ok THEN failed                \* JSONDecodeError
        ELSE IF parsed.val.t # "obj" THEN failed \* no update() on a list, str, int, None
        ELSE IF ~schema.ok THEN failed           \* read_csv raises
        ELSE IF ~file.writable THEN failed       \* to_csv raises
        ELSE LET df_final == BuildRow(DictUpdate(parsed.val.v, static_data), schema.columns)
             IN  [ok |-> TRUE, raised |-> FALSE,
                  file |-> AppendCsv(file, [k \in 1..Len(df_final.values) |->
                                               Render(df_final.values[k])]),
                  entry |-> Log("INFO", "Data appended")]

(***************************************************************************)
(* Bounds and inputs                                                       *)
(***************************************************************************)
MaxRuns == 2        \* runs of the script, one after the other
MaxControls == 2    \* expansion controls a page shows at once
MaxPieces == 4      \* pieces a model output is put together from

\* scrape_dynamic_content, line 72
max_loops == 20

\* The storage a first run may find: none (with or without its directory), the
\* default header, a wider schema, a schema without Name and in another order,
\* a file that is not a table, and a read-only file.
InitialFiles ==
    << NoFile,
       NewCsv(DefaultSchema),
       NewCsv(<< Reference, Name, Mileage >>),
       NewCsv(<< Mileage, Reference >>),
       [NewCsv(DefaultSchema) EXCEPT !.readable = FALSE],
       [NewCsv(<< Reference, Name, Mileage >>) EXCEPT !.writable = FALSE] >>

\* What the page shows for the two static selectors.
ReferenceText == << "a", "b", "c", "-", "1" >>
NameText == << "B", "u", "s" >>

FenceOpen == FenceJson \o << "\n" >>
FenceClose == << "\n" >> \o Fence
Prose == << "H", "i", " " >>

\* Bodies of a model answer: objects (one whose Name collides with the static
\* field, one with a key outside every schema, one with a null, one with a
\* number), an array, an object cut short, and plain prose.
Bodies ==
    << ObjectText(<< << Mileage, Quoted(<< "5", " ", "k", "m" >>) >> >>),
       ObjectText(<< << Mileage, << "7" >> >>, << Name, Quoted(<< "x" >>) >> >>),
       ObjectText(<< << Doors, Quoted(<< "2" >>) >>, << Mileage, << "n", "u", "l", "l" >> >> >>),
       ObjectText(<< >>),
       << "[" >> \o ObjectText(<< << Mileage, Quoted(<< "5" >>) >> >>) \o << "]" >>,
       << "{" >> \o Quoted(Mileage) \o << ":" >> \o Quoted(<< "5" >>),
       << "}", "n", "o", "{" >>,
       << "n", "o" >> >>

\* The ways an answer wraps its body: bare, fenced, in prose, fenced in prose.
Wrap(w, body) ==
    CASE w = 1 -> body
      [] w = 2 -> FenceOpen \o body \o FenceClose
      [] w = 3 -> Prose \o body \o << " " >> \o Prose
      [] w = 4 -> Prose \o FenceOpen \o body \o FenceClose \o << "\n" >>

\* The answers the language model may give.
LLMOutputs == { Wrap(w, Bodies[b]) : w \in 1..4, b \in 1..Len(Bodies) }

(***************************************************************************)
(* State                                                                   *)
(***************************************************************************)
VARIABLES
    dirExists,    \* whether output/ exists
    csv,          \* output/auction_data.csv
    pc,           \* where the running script is
    runs,         \* runs started so far
    log,          \* the WARNING and ERROR lines this run has logged
    exc,          \* the exception in flight: [kind, at], kind "none" when there is none
    columns,      \* __main__: columns
    static_info,  \* scrape_dynamic_content: static_info
    html,         \* the captured snapshot
    llm_json,     \* __main__: llm_json
    session,      \* the browser session: "none", "open" or "closed"
    page,         \* the live page: [controls, clicks, attempts, annotations]
    i,            \* the expansion loop's iteration count
    rowsAtStart,  \* the data rows the file held when this run started
    parts,        \* text check: the pieces of the text
    raw,          \* text check: the text
    once,         \* text check: the text after fence stripping
    twice,        \* text check: that text after fence stripping again
    data,         \* text check: what save_result parses from the stripped text
    tpc           \* text check: the step reached

fsVars == << dirExists, csv >>
runVars == << pc, runs, log, exc, columns, static_info, html, llm_json, rowsAtStart >>
browserVars == << session, page, i >>
textVars == << parts, raw, once, twice, data, tpc >>
vars == << fsVars, runVars, browserVars, textVars >>

NoExc == [kind |-> "none", at |-> "none"]
NoPage == [controls |-> 0, clicks |-> 0, attempts |-> 0, annotations |-> 0]
NoHtml == [expanded |-> 0, marks |-> 0, marker |-> FALSE, captured |-> FALSE]
NoStatic == << >>
NoData == [ok |-> FALSE, val |-> JNull]

TextIdle ==
    /\ parts = << >> /\ raw = << >> /\ once = << >> /\ twice = << >>
    /\ data = NoData /\ tpc = "off"

ScriptIdle ==
    /\ pc = "idle" /\ runs = 0 /\ log = << >> /\ exc = NoExc
    /\ columns = << >> /\ static_info = NoStatic /\ html = NoHtml
    /\ llm_json = << >> /\ rowsAtStart = << >>
    /\ session = "none" /\ page = NoPage /\ i = 0

Init ==
    /\ \E f \in 1..Len(InitialFiles) :
          /\ csv = InitialFiles[f]
          /\ dirExists \in (IF csv.exists THEN {TRUE} ELSE BOOLEAN)
    /\ ScriptIdle
    /\ TextIdle


(***************************************************************************)
(* src/get_data_agentic.py, __main__ and the functions it calls            *)
(***************************************************************************)

\* No script is running: none has run yet, or the last one has ended or died.
Stopped == {"idle", "done", "crashed", "x_done", "x_crashed"}

\* The interpreter starts the script: lines 16-25 set the logging up.  Runs
\* follow one another; none overlaps another.  Of what the script logs the
\* model keeps the lines of level WARNING and ERROR.
StartRun ==
    /\ pc \in Stopped
    /\ tpc = "off"
    /\ runs < MaxRuns
    /\ runs' = runs + 1
    /\ pc' = "schema"
    /\ log' = << >>
    /\ exc' = NoExc
    /\ columns' = << >>
    /\ static_info' = NoStatic
    /\ html' = NoHtml
    /\ llm_json' = << >>
    /\ rowsAtStart' = csv.rows
    /\ session' = "none"
    /\ page' = NoPage
    /\ i' = 0
    /\ UNCHANGED << fsVars, textVars >>

\* Lines 27-37, get_target_schema: the directory and the file are made when
\* missing, then the file is read; a file that is no table raises, which
\* nothing catches.
GetTargetSchema ==
    /\ pc = "schema"
    /\ dirExists' = TRUE
    /\ csv' = IF csv.exists THEN csv ELSE NewCsv(DefaultSchema)
    /\ LET df == ReadCsv(csv')
           warned == IF csv.exists THEN log
                     ELSE Append(log, Log("WARNING", "not found. Creating empty file."))
       IN  IF df.ok
           THEN /\ columns' = df.columns
                /\ log' = warned
                /\ pc' = "launch"
                /\ exc' = exc
           ELSE /\ columns' = columns
                /\ log' = warned
                /\ pc' = "crashed"
                /\ exc' = [kind |-> "ParserError", at |-> "schema"]
    /\ UNCHANGED << runs, static_info, html, llm_json, rowsAtStart, browserVars, textVars >>

\* A step inside the with block raises: the exception leaves the block.
Raise(kind, at) ==
    /\ exc' = [kind |-> kind, at |-> at]
    /\ pc' = "exit_with"

\* Lines 54-61: the with block is entered and the browser launched.
Launch ==
    /\ pc = "launch"
    /\ \E ok \in BOOLEAN :
          IF ok THEN session' = "open" /\ pc' = "goto" /\ exc' = exc
          ELSE session' = session /\ Raise("Error", "launch")
    /\ UNCHANGED << fsVars, runs, log, columns, static_info, html, llm_json, rowsAtStart,
                    page, i, textVars >>

\* Line 62, page.goto(url): the page that loads shows any number of controls.
Goto ==
    /\ pc = "goto"
    /\ \E ok \in BOOLEAN :
          IF ok
          THEN /\ \E c \in 0..MaxControls : page' = [NoPage EXCEPT !.controls = c]
               /\ pc' = "wait" /\ exc' = exc
          ELSE page' = page /\ Raise("Error", "goto")
    /\ UNCHANGED << fsVars, runs, log, columns, static_info, html, llm_json, rowsAtStart,
                    session, i, textVars >>

\* Lines 63-66: the wait for network quiescence, and the debug lines.
WaitForLoadState ==
    /\ pc = "wait"
    /\ \E ok \in BOOLEAN :
          IF ok
          THEN pc' = "static" /\ exc' = exc
          ELSE Raise("TimeoutError", "wait")
    /\ UNCHANGED << fsVars, runs, log, columns, static_info, html, llm_json, rowsAtStart,
                    browserVars, textVars >>

\* Lines 39-49 and 123-129, get_static_data and get_reference: eval_on_selector
\* raises when its selector matches nothing, and neither function catches.
StaticData(refFound, nameFound) ==
    [ok |-> refFound /\ nameFound,
     value |-> (Reference :> JStr(ReferenceText)) @@ (Name :> JStr(NameText))]

\* Lines 67-68: static_info = get_static_data(page).
GetStaticData ==
    /\ pc = "static"
    /\ \E refFound \in BOOLEAN, nameFound \in BOOLEAN :
          LET r == StaticData(refFound, nameFound) IN
          IF r.ok
          THEN /\ static_info' = r.value
               /\ pc' = "cookies" /\ exc' = exc
          ELSE /\ static_info' = static_info
               /\ Raise("Error", "static")
    /\ UNCHANGED << fsVars, runs, log, columns, html, llm_json, rowsAtStart, browserVars, textVars >>

\* Lines 74 and 109-121, accept_cookies: the dialog is accepted when visible;
\* whatever fails in here is logged at level DEBUG and dropped, so the three
\* outcomes (accepted, no dialog, an error) leave the same state.
AcceptCookies ==
    /\ pc = "cookies"
    /\ pc' = "loop"
    /\ i' = 0
    /\ UNCHANGED << fsVars, runs, log, exc, columns, static_info, html, llm_json, rowsAtStart,
                    session, page, textVars >>

\* A loop that goes on while controls remain.
LoopExhaustedNever(n) == FALSE

\* Line 76, for _ in range(max_loops): the loop ends after max_loops iterations.
LoopExhausted(n) == n >= max_loops

\* A click's failure that is answered by going on to the next iteration.
AfterClickFailureContinue == "loop"

\* Lines 87-89: a click's failure is logged and breaks out of the loop.
AfterClickFailure == "annotate"

\* Lines 76-89, one iteration of the expansion loop: the controls are counted;
\* with none the loop ends, else the first is clicked and the page changes as
\* it will.
ExpandLoop ==
    /\ pc = "loop"
    /\ IF LoopExhausted(i)
       THEN /\ pc' = "annotate"
            /\ UNCHANGED << log, exc, page, i >>
       ELSE \E counted \in BOOLEAN :
            IF ~counted
            THEN /\ Raise("Error", "count")
                 /\ UNCHANGED << log, page, i >>
            ELSE IF page.controls = 0
            THEN /\ pc' = "annotate"
                 /\ UNCHANGED << log, exc, page, i >>
            ELSE \E clicked \in BOOLEAN :
                 IF clicked
                 THEN /\ \E c \in 0..MaxControls :
                            page' = [page EXCEPT !.controls = c,
                                                 !.clicks = page.clicks + 1,
                                                 !.attempts = page.attempts + 1]
                      /\ i' = i + 1
                      /\ pc' = "loop"
                      /\ UNCHANGED << log, exc >>
                 ELSE /\ page' = [page EXCEPT !.attempts = page.attempts + 1]
                      /\ log' = Append(log, Log("WARNING", "Could not click expander"))
                      /\ i' = i + 1
                      /\ pc' = AfterClickFailure
                      /\ exc' = exc
    /\ UNCHANGED << fsVars, runs, columns, static_info, html, llm_json, rowsAtStart,
                    session, textVars >>

\* Lines 91-99, page.evaluate: one pass over the document that appends the
\* marker to every struck-through element.
Annotate ==
    /\ pc = "annotate"
    /\ \E ok \in BOOLEAN :
          IF ok
          THEN /\ page' = [page EXCEPT !.annotations = page.annotations + 1]
               /\ pc' = "content" /\ exc' = exc
          ELSE page' = page /\ Raise("Error", "annotate")
    /\ UNCHANGED << fsVars, runs, log, columns, static_info, html, llm_json, rowsAtStart,
                    session, i, textVars >>

\* Line 101, html = page.content(): the markup of the page as it is now, which
\* holds the text __main__ splits it at, or does not.
Content ==
    /\ pc = "content"
    /\ \E ok \in BOOLEAN :
          IF ok
          THEN /\ \E m \in BOOLEAN :
                     html' = [expanded |-> page.clicks, marks |-> page.annotations,
                              marker |-> m, captured |-> TRUE]
               /\ pc' = "close" /\ exc' = exc
          ELSE html' = html /\ Raise("Error", "content")
    /\ UNCHANGED << fsVars, runs, log, columns, static_info, llm_json, rowsAtStart,
                    browserVars, textVars >>

\* Lines 102-104: browser.close(), the last log line, and the return.
CloseBrowser ==
    /\ pc = "close"
    /\ \E ok \in BOOLEAN :
          IF ok
          THEN /\ session' = "closed"
               /\ pc' = "exit_with" /\ exc' = exc
          ELSE session' = session /\ Raise("Error", "close")
    /\ UNCHANGED << fsVars, runs, log, columns, static_info, html, llm_json, rowsAtStart,
                    page, i, textVars >>

\* An exit that leaves the browser as it is.
SessionAfterExitLeaked(s) == s

\* Line 54, the end of "with sync_playwright() as p": Playwright is stopped,
\* and with it every browser it launched.
SessionAfterExit(s) == IF s = "open" THEN "closed" ELSE s

\* The with block is left, by the return or by an exception; the page and
\* the loop's counter go with it.
ExitPlaywright ==
    /\ pc = "exit_with"
    /\ session' = SessionAfterExit(session)
    /\ page' = NoPage
    /\ i' = 0
    /\ pc' = IF exc = NoExc THEN "analyze" ELSE "except"
    /\ UNCHANGED << fsVars, runs, log, exc, columns, static_info, html, llm_json,
                    rowsAtStart, textVars >>

\* Lines 105-107: the exception is logged and raised again; __main__ does not
\* catch it.
ScrapeExcept ==
    /\ pc = "except"
    /\ log' = Append(log, Log("ERROR", "Error scraping dynamic content"))
    /\ pc' = "crashed"
    /\ UNCHANGED << fsVars, runs, exc, columns, static_info, html, llm_json, rowsAtStart,
                    browserVars, textVars >>

\* Line 216 and lines 131-178: html.split("88/89")[1] raises IndexError when
\* the snapshot lacks that text; analyze_with_llm logs and re-raises what fails
\* in it, and otherwise returns the model's answer, whatever it is.  The
\* snapshot is not read again after this line.
AnalyzeWithLlm ==
    /\ pc = "analyze"
    /\ html' = NoHtml
    /\ IF ~html.marker
       THEN /\ exc' = [kind |-> "IndexError", at |-> "split"]
            /\ pc' = "crashed"
            /\ UNCHANGED << log, llm_json >>
       ELSE \E ok \in BOOLEAN :
            IF ok
            THEN /\ \E out \in LLMOutputs : llm_json' = out
                 /\ pc' = "save"
                 /\ UNCHANGED << log, exc >>
            ELSE /\ log' = Append(log, Log("ERROR", "Error in LLM analysis"))
                 /\ exc' = [kind |-> "Error", at |-> "analyze"]
                 /\ pc' = "crashed"
                 /\ llm_json' = llm_json
    /\ UNCHANGED << fsVars, runs, columns, static_info, rowsAtStart, browserVars, textVars >>

\* Line 218, save_result(llm_json, static_info).
SaveResult ==
    /\ pc = "save"
    /\ LET r == SaveResultOutcome(llm_json, static_info, csv) IN
          /\ csv' = r.file
          /\ log' = IF r.ok THEN log ELSE Append(log, r.entry)
          /\ IF r.raised
             THEN exc' = [kind |-> "Error", at |-> "save"] /\ pc' = "crashed"
             ELSE exc' = exc /\ pc' = "complete"
    /\ UNCHANGED << dirExists, runs, columns, static_info, html, llm_json, rowsAtStart,
                    browserVars, textVars >>

\* Line 220: the last log line; the script ends.
Complete ==
    /\ pc = "complete"
    /\ pc' = "done"
    /\ UNCHANGED << fsVars, runs, log, exc, columns, static_info, html, llm_json, rowsAtStart,
                    browserVars, textVars >>

(***************************************************************************)
(* src/get-fleequid-data.py, main and extract_auction_data.  The script    *)
(* prints instead of logging and does not touch the storage; the file      *)
(* html_get_engine_data writes (engine_section.html) is not modelled.      *)
(***************************************************************************)

\* Lines 179-182: main calls extract_auction_data with a fixed link.
StartExtract ==
    /\ pc \in Stopped
    /\ tpc = "off"
    /\ runs < MaxRuns
    /\ runs' = runs + 1
    /\ pc' = "x_launch"
    /\ log' = << >>
    /\ exc' = NoExc
    /\ columns' = << >>
    /\ static_info' = NoStatic
    /\ html' = NoHtml
    /\ llm_json' = << >>
    /\ rowsAtStart' = csv.rows
    /\ session' = "none"
    /\ page' = NoPage
    /\ i' = 0
    /\ UNCHANGED << fsVars, textVars >>

\* Lines 12-20: the with block is entered and the browser, its context and
\* its page are made, before the try: what fails here leaves the with block.
ExtractLaunch ==
    /\ pc = "x_launch"
    /\ \E ok \in BOOLEAN :
          IF ok THEN session' = "open" /\ pc' = "x_try" /\ exc' = exc
          ELSE /\ session' = session /\ pc' = "x_exit"
               /\ exc' = [kind |-> "Error", at |-> "x_launch"]
    /\ UNCHANGED << fsVars, runs, log, columns, static_info, html, llm_json, rowsAtStart,
                    page, i, textVars >>

\* Lines 21-43, the try block: navigation, the wait, get_reference and
\* html_get_engine_data; whatever one of them raises is caught and printed,
\* and the function is to return None.
ExtractTry ==
    /\ pc = "x_try"
    /\ \E failed \in {"none", "x_goto", "x_wait", "x_reference", "x_engine"} :
          exc' = IF failed = "none" THEN exc ELSE [kind |-> "caught", at |-> failed]
    /\ pc' = "x_finally"
    /\ UNCHANGED << fsVars, runs, log, columns, static_info, html, llm_json, rowsAtStart,
                    browserVars, textVars >>

\* Lines 44-45, the finally clause: browser.close(), on both ways out of the
\* try; what it raises replaces the pending return.
ExtractFinally ==
    /\ pc = "x_finally"
    /\ \E ok \in BOOLEAN :
          IF ok THEN session' = "closed" /\ exc' = exc
          ELSE session' = session /\ exc' = [kind |-> "Error", at |-> "x_close"]
    /\ pc' = "x_exit"
    /\ UNCHANGED << fsVars, runs, log, columns, static_info, html, llm_json, rowsAtStart,
                    page, i, textVars >>

\* Line 12, the end of the with block, and lines 43 and 48: the function
\* returns (None after a caught exception), or the exception reaches main.
ExtractExit ==
    /\ pc = "x_exit"
    /\ session' = SessionAfterExit(session)
    /\ pc' = IF exc.kind \in {"none", "caught"} THEN "x_done" ELSE "x_crashed"
    /\ UNCHANGED << fsVars, runs, log, exc, columns, static_info, html, llm_json,
                    rowsAtStart, page, i, textVars >>

(***************************************************************************)
(* save_result's text steps on their own: line 182 applied to a text, the  *)
(* parse of lines 184-193 applied to the result, and line 182 applied      *)
(* again.  The text is put together from at most MaxPieces pieces.         *)
(***************************************************************************)
BusObject == JObj((Name :> JStr(NameText)) @@ (Doors :> JObj(<< "n" >> :> JStr(<< "2" >>))))
BusObjectText ==
    ObjectText(<< << Name, Quoted(NameText) >>,
                  << Doors, ObjectText(<< << << "n" >>, Quoted(<< "2" >>) >> >>) >> >>)

\* An object with a fence marker inside a string.
TickObject == JObj(Name :> JStr(<< "a" >> \o Fence \o << "b" >>))
TickObjectText == ObjectText(<< << Name, Quoted(<< "a" >> \o Fence \o << "b" >>) >> >>)

Piece(kind, text, val) == [kind |-> kind, text |-> text, val |-> val]

Pieces ==
    << Piece("fence", FenceJson, JNull),
       Piece("fence", Fence, JNull),
       Piece("prose", << Backtick >>, JNull),
       Piece("prose", << "j", "s", "o", "n" >>, JNull),
       Piece("space", << "\n" >>, JNull),
       Piece("prose", Prose, JNull),
       Piece("object", BusObjectText, BusObject),
       Piece("object", TickObjectText, TickObject),
       Piece("brace", << "{" >>, JNull),
       Piece("brace", << "}" >>, JNull) >>

TextOf(ps) == Concat([k \in 1..Len(ps) |-> Pieces[ps[k]].text])

TextInit ==
    /\ csv = NoFile /\ dirExists = FALSE
    /\ ScriptIdle
    /\ parts \in UNION { [1..n -> 1..Len(Pieces)] : n \in 0..MaxPieces }
    /\ raw = TextOf(parts)
    /\ once = << >> /\ twice = << >> /\ data = NoData
    /\ tpc = "input"

\* Line 182.
TextStrip ==
    /\ tpc = "input"
    /\ once' = StripFences(raw)
    /\ tpc' = "stripped"
    /\ UNCHANGED << fsVars, runVars, browserVars, parts, raw, twice, data >>

\* Lines 184-193.
TextParse ==
    /\ tpc = "stripped"
    /\ data' = ParseModelOutput(once)
    /\ tpc' = "parsed"
    /\ UNCHANGED << fsVars, runVars, browserVars, parts, raw, once, twice >>

\* Line 182 again, on its own result.
TextStripAgain ==
    /\ tpc = "parsed"
    /\ twice' = StripFences(once)
    /\ tpc' = "restripped"
    /\ UNCHANGED << fsVars, runVars, browserVars, parts, raw, once, data >>

TextNext == TextStrip \/ TextParse \/ TextStripAgain

SpecText == TextInit /\ [][TextNext]_vars

Next ==
    \/ StartRun
    \/ GetTargetSchema
    \/ Launch
    \/ Goto
    \/ WaitForLoadState
    \/ GetStaticData
    \/ AcceptCookies
    \/ ExpandLoop
    \/ Annotate
    \/ Content
    \/ CloseBrowser
    \/ ExitPlaywright
    \/ ScrapeExcept
    \/ AnalyzeWithLlm
    \/ SaveResult
    \/ Complete
    \/ StartExtract
    \/ ExtractLaunch
    \/ ExtractTry
    \/ ExtractFinally
    \/ ExtractExit

Spec == Init /\ [][Next]_vars

(***************************************************************************)
(* Properties                                                              *)
(***************************************************************************)
LastRow(file) == file.rows[Len(file.rows)]
HasLogged(msg) == \E k \in 1..Len(log) : log[k].msg = msg
HasLoggedError == \E k \in 1..Len(log) : log[k].level = "ERROR"
ScrapeSteps == {"launch", "goto", "wait", "static", "count", "annotate", "content", "close"}
AfterScrape == {"except", "analyze", "save", "complete", "done", "crashed"}
AfterExtract == {"x_done", "x_crashed"}

\* C1: the row save_result appends has one cell for each column of the schema
\* S, in S's order; the cell of column c is T[c] when the static fields T have
\* c, else M[c] as written to the file (a null is written blank) when the
\* parsed mapping M has c, else blank; a key outside S has no cell.
C1_RowFollowsSchema ==
    [][ pc = "save" /\ csv'.rows # csv.rows =>
          LET S == csv.header
              M == ParseModelOutput(StripFences(llm_json)).val.v
              T == static_info
              row == LastRow(csv')
          IN  /\ csv'.rows = Append(csv.rows, row)
              /\ Len(row) = Len(S)
              /\ \A k \in 1..Len(S) :
                    row[k] = IF S[k] \in DOMAIN T THEN T[S[k]]
                             ELSE IF S[k] \in DOMAIN M THEN Render(M[S[k]])
                             ELSE Blank ]_vars

\* A row in which the static Name has replaced the model's and the model's
\* Mileage stands beside it.
C1_Witness ==
    /\ pc = "complete"
    /\ csv.header = << Reference, Name, Mileage >>
    /\ Len(csv.rows) = Len(rowsAtStart) + 1
    /\ LastRow(csv) = << JStr(ReferenceText), JStr(NameText), JNum(<< "7" >>) >>
    /\ llm_json = Wrap(2, Bodies[2])

\* A wrapped object: one piece is an object, the others, of which there is at
\* least one, are fences, prose and line breaks.
WrappedObject(ps) ==
    \E k \in 1..Len(ps) :
        /\ Len(ps) > 1
        /\ Pieces[ps[k]].kind = "object"
        /\ \A j \in 1..Len(ps) : j # k => Pieces[ps[j]].kind \in {"fence", "prose", "space"}
ObjectIn(ps) == Pieces[ps[CHOOSE k \in 1..Len(ps) : Pieces[ps[k]].kind = "object"]].val

\* C2: an output that is one JSON object wrapped in fences and brace-free
\* prose parses to that object; when the stripped text does not parse and has
\* no "{" before a "}" no mapping is produced.
C2_WrappedObjectParses ==
    tpc \in {"parsed", "restripped"} =>
        /\ WrappedObject(parts) => data.ok /\ data.val = ObjectIn(parts)
        /\ (~JsonLoads(once).ok /\ (Find(once, "{") = -1 \/ RFind(once, "}") < Find(once, "{")))
              => ~data.ok

\* The same for a wrapped object that holds no fence marker of its own, with
\* the recovery spelled out: what is parsed is the stripped text, or failing
\* that its part from the first "{" to the last "}".
RecoveryPathFenceFree ==
    tpc \in {"parsed", "restripped"} =>
        /\ WrappedObject(parts) /\ ObjectIn(parts) # TickObject
              => data.ok /\ data.val = ObjectIn(parts)
        /\ (~JsonLoads(once).ok /\ (Find(once, "{") = -1 \/ RFind(once, "}") < Find(once, "{")))
              => ~data.ok
        /\ (~JsonLoads(once).ok /\ Find(once, "{") # -1 /\ RFind(once, "}") > Find(once, "{"))
              => data = JsonLoads(SubSeq(once, Find(once, "{") + 1, RFind(once, "}") + 1))
        /\ JsonLoads(once).ok => data = JsonLoads(once)

\* C3: whatever fails in save_result, the run goes on to its end with no
\* exception, the file is as it was, and the raw model output is logged.
C3_FailureLogsRawOutput ==
    [][ pc = "save" =>
          /\ pc' = "complete" /\ exc' = NoExc
          /\ \/ csv'.rows # csv.rows /\ log' = log
             \/ /\ csv' = csv
                /\ log' = Append(log, [level |-> "ERROR", msg |-> "Error saving result",
                                       text |-> llm_json]) ]_vars

\* The same with the text the log line does carry: the model output as line
\* 182 left it.
SaveFailureIsSwallowed ==
    [][ pc = "save" =>
          /\ pc' = "complete" /\ exc' = NoExc
          /\ \/ csv'.rows # csv.rows /\ log' = log
             \/ /\ csv' = csv
                /\ log' = Append(log, [level |-> "ERROR", msg |-> "Error saving result",
                                       text |-> StripFences(llm_json)]) ]_vars

\* C4: the file only grows, by one data row at a time and by at most one in a
\* run; its header is written when the file is made and never changes; a run
\* that ends with nothing logged as an error has added one row, any other
\* none.
C4_AppendOnly ==
    /\ [][ csv.exists =>
             /\ csv'.exists
             /\ csv'.header = csv.header
             /\ \/ csv'.rows = csv.rows
                \/ /\ Len(csv'.rows) = Len(csv.rows) + 1
                   /\ SubSeq(csv'.rows, 1, Len(csv.rows)) = csv.rows
                   /\ Len(LastRow(csv')) = Len(csv.header) ]_vars
    /\ [][ ~csv.exists /\ csv'.exists => csv'.rows = << >> ]_vars
    /\ [](pc # "idle" =>
             /\ Len(csv.rows) \in {Len(rowsAtStart), Len(rowsAtStart) + 1}
             /\ SubSeq(csv.rows, 1, Len(rowsAtStart)) = rowsAtStart)
    /\ [](pc = "done" /\ ~HasLoggedError => Len(csv.rows) = Len(rowsAtStart) + 1)
    /\ []((pc = "crashed" \/ (pc = "done" /\ HasLoggedError)) => csv.rows = rowsAtStart)

\* Two runs, each of which has added its row.
C4_Witness ==
    /\ runs = 2 /\ pc = "done" /\ ~HasLoggedError
    /\ Len(csv.rows) = 2 /\ Len(rowsAtStart) = 1

\* C5: get_target_schema makes a missing directory and a missing file, the
\* file with the header Reference,Name and no rows, raises nothing and returns
\* those two columns; a file that exists is left as it is, and its columns
\* are returned in the file's order.
C5_SchemaLoader ==
    [][ pc = "schema" =>
          IF ~csv.exists
          THEN /\ dirExists' /\ csv'.exists
               /\ csv'.header = << Reference, Name >> /\ csv'.rows = << >>
               /\ columns' = << Reference, Name >>
               /\ pc' = "launch" /\ exc' = NoExc
          ELSE /\ csv' = csv
               /\ pc' = "launch" => columns' = csv.header ]_vars

\* The file has just been made, in a directory that has just been made.
C5_Witness ==
    /\ pc = "launch" /\ runs = 1
    /\ HasLogged("not found. Creating empty file.")
    /\ columns = << Reference, Name >>
    /\ csv.rows = << >>

\* C6: the expansion loop clicks at most max_loops times, each iteration that
\* stays in the loop uses up one of the max_loops, and a page with no control
\* at the first count ends the loop with no click.
C6_LoopBounded ==
    /\ [](page.attempts <= max_loops /\ i <= max_loops)
    /\ [][ pc = "loop" /\ pc' = "loop" => i' = i + 1 /\ i' <= max_loops ]_vars
    /\ [][ pc = "loop" /\ i = 0 /\ page.controls = 0 =>
             pc' # "loop" /\ page'.attempts = 0 ]_vars

\* The cap ends the loop while controls remain.
C6_Witness ==
    /\ pc = "annotate" /\ page.clicks = max_loops /\ page.controls > 0

\* C7: a static selector that matches nothing is caught, and the run goes on
\* to the cookie dialog and the expansion loop.
C7_StaticMissContinues ==
    [][ pc = "static" => pc' = "cookies" /\ exc' = NoExc ]_vars

\* C8: once scrape_dynamic_content (or extract_auction_data) has returned or
\* raised, the browser session is no longer open; scrape_dynamic_content
\* returns only with the snapshot captured and nothing raised; what a step
\* before the capture raises reaches the caller.
C8_SessionTornDown ==
    /\ [](pc \in AfterScrape \cup AfterExtract => session # "open")
    /\ [](pc = "analyze" => exc = NoExc /\ html.captured)
    /\ [](exc.at \in ScrapeSteps => pc \in {"exit_with", "except", "crashed"})
    /\ [][ pc = "exit_with" /\ exc # NoExc => pc' = "except" /\ exc' = exc ]_vars
    /\ [][ pc = "except" => pc' = "crashed" /\ exc' = exc ]_vars

\* The annotation pass has failed, the session is closed, the error is out.
C8_Witness ==
    /\ pc = "crashed" /\ exc.at = "annotate" /\ session = "closed"
    /\ HasLogged("Error scraping dynamic content")

\* C9: fence stripping applied to its own result changes nothing.
C9_StripIdempotent == tpc = "restripped" => twice = once

\* A text that stripping has changed, and not to nothing.
C9_Witness ==
    /\ tpc = "restripped" /\ once # raw /\ once # << >>
    /\ \E k \in 1..Len(parts) : Pieces[parts[k]].kind = "fence"

\* C10: a click that fails ends the loop at once, with nothing raised and no
\* further click; the annotation pass runs once, after the last click and
\* before the capture, and the snapshot that is returned is the page as the
\* clicks left it.
C10_AbortThenAnnotateOnce ==
    /\ [][ pc = "loop" /\ page'.attempts > page.attempts /\ page'.clicks = page.clicks =>
             pc' = "annotate" /\ exc' = NoExc ]_vars
    /\ [][ pc # "loop" /\ pc' \notin {"schema", "analyze", "except"} =>
             page'.attempts = page.attempts /\ page'.clicks = page.clicks ]_vars
    /\ [](page.annotations <= 1)
    /\ [](pc \in {"annotate", "loop"} => page.annotations = 0 /\ ~html.captured)
    /\ [](pc \in {"close"} =>
             html.captured /\ html.marks = 1 /\ page.annotations = 1
             /\ html.expanded = page.clicks)
    /\ [](pc = "analyze" => html.captured /\ html.marks = 1)

\* A click has failed after another succeeded, and the snapshot is back.
C10_Witness ==
    /\ pc = "analyze" /\ html.marks = 1 /\ html.expanded = 1
    /\ HasLogged("Could not click expander")

=============================================================================
